---- MODULE Spec2Model ----
(***************************************************************************)
(* A model of tarsnap_prune.py: the retention selector (arc_names_to_keep, *)
(* arc_names_to_delete), the two parsers (parse_keep_specs, parse_arcs)    *)
(* and the control flow of run() with its two external tarsnap commands.   *)
(*                                                                         *)
(* Text is a sequence of one-character strings. A datetime is a record of  *)
(* its six fields. A strftime result is the tuple of the numeric fields    *)
(* the format prints (fixed width, so tuples are equal iff the texts are). *)
(***************************************************************************)
EXTENDS Integers, Sequences, FiniteSets, TLC

VARIABLES
    mode,       \* which entry point this behaviour exercises
    pc,         \* position inside that entry point
    arcs,       \* the caller's List[Archive] handed to the selector
    arcs0,      \* that list as it was when the call was made
    kss,        \* the keep-specs handed to the selector
    ks,         \* the single keep-spec of an arc_names_to_keep call
    result,     \* what the called function yielded / returned / raised
    text,       \* the string handed to a parser (or to run, as KEEP_SPEC)
    dry_run,    \* run(): the --dry-run flag
    env,        \* run(): exit status of each tarsnap command run so far
    arcs_str,   \* run(): local arcs_str
    keep_specs, \* run(): local keep_specs
    arcs_dict,  \* run(): local arcs_dict
    to_delete,  \* run(): local to_delete
    commands,   \* run(): the tarsnap commands issued so far, in order
    stdout,     \* run(): what was printed so far
    exit_code   \* run(): the process's exit status, -1 while running

vars == <<mode, pc, arcs, arcs0, kss, ks, result, text, dry_run, env,
          arcs_str, keep_specs, arcs_dict, to_delete, commands, stdout, exit_code>>

-----------------------------------------------------------------------------
(* Bounds of the model *)

MaxArcs == 3        \* archives in a family handed to arc_names_to_delete
MaxSorted == 4      \* archives in a sorted list handed to arc_names_to_keep
MaxNum == 2         \* largest KeepSpec.num handed to the selector
MaxText == 5        \* characters in a policy string handed to parse_keep_specs
MaxName == 2        \* characters in an archive name of a listing
MaxLines == 2       \* lines in a listing

-----------------------------------------------------------------------------
(* Sequence helpers *)

Range(s) == {s[i] : i \in 1..Len(s)}

SeqsUpTo(S, n) == UNION {[1..k -> S] : k \in 0..n}

RECURSIVE Flatten(_)
Flatten(ss) == IF ss = <<>> THEN <<>> ELSE Head(ss) \o Flatten(Tail(ss))

-----------------------------------------------------------------------------
(* datetime and strftime *)

DT(Y, M, D, h, mi, s) == [Y |-> Y, M |-> M, D |-> D, h |-> h, mi |-> mi, s |-> s]

IsLeap(y) == (y % 4 = 0) /\ ((y % 100 # 0) \/ (y % 400 = 0))

DaysInMonth(y, m) ==
    IF m = 2 THEN (IF IsLeap(y) THEN 29 ELSE 28)
    ELSE IF m \in {4, 6, 9, 11} THEN 30 ELSE 31

RECURSIVE DaysBeforeMonth(_, _)
DaysBeforeMonth(y, m) ==
    IF m = 1 THEN 0 ELSE DaysBeforeMonth(y, m - 1) + DaysInMonth(y, m - 1)

\* tm_yday + 1: the day of the year, 1-based
DayOfYear(t) == DaysBeforeMonth(t.Y, t.M) + t.D

DaysBeforeYear(y) ==
    (y - 1) * 365 + ((y - 1) \div 4) - ((y - 1) \div 100) + ((y - 1) \div 400)

\* ISO weekday, Monday = 1 .. Sunday = 7
IsoWeekday(t) == ((DaysBeforeYear(t.Y) + DayOfYear(t) + 6) % 7) + 1

\* number of ISO weeks of year y (52 or 53)
IsoWeeksInYear(y) ==
    LET p(x) == (x + (x \div 4) - (x \div 100) + (x \div 400)) % 7
    IN  IF p(y) = 4 \/ p(y - 1) = 3 THEN 53 ELSE 52

\* <<%G, %V>>: ISO-8601 week-based year and week number
IsoYearWeek(t) ==
    LET w == (DayOfYear(t) - IsoWeekday(t) + 10) \div 7
    IN  IF w < 1 THEN <<t.Y - 1, IsoWeeksInYear(t.Y - 1)>>
        ELSE IF w > IsoWeeksInYear(t.Y) THEN <<t.Y + 1, 1>>
        ELSE <<t.Y, w>>

\* datetime.__lt__
DtLess(a, b) ==
    LET x == <<a.Y, a.M, a.D, a.h, a.mi, a.s>>
        y == <<b.Y, b.M, b.D, b.h, b.mi, b.s>>
    IN  \E i \in 1..6 : x[i] < y[i] /\ \A j \in 1..(i - 1) : x[j] = y[j]

TIME_PATTERNS ==
    [tag \in {"s", "min", "h", "d", "w", "mon", "y"} |->
        CASE tag = "s"   -> "%Y-%m-%d %H:%M:%S"
          [] tag = "min" -> "%Y-%m-%d %H:%M"
          [] tag = "h"   -> "%Y-%m-%d %H"
          [] tag = "d"   -> "%Y-%m-%d"
          [] tag = "w"   -> "%G-%V"
          [] tag = "mon" -> "%Y-%m"
          [] tag = "y"   -> "%Y"]

Patterns == {TIME_PATTERNS[tag] : tag \in DOMAIN TIME_PATTERNS}

\* datetime.strftime(pattern), for the patterns of TIME_PATTERNS
strftime(t, pattern) ==
    CASE pattern = "%Y-%m-%d %H:%M:%S" -> <<t.Y, t.M, t.D, t.h, t.mi, t.s>>
      [] pattern = "%Y-%m-%d %H:%M"    -> <<t.Y, t.M, t.D, t.h, t.mi>>
      [] pattern = "%Y-%m-%d %H"       -> <<t.Y, t.M, t.D, t.h>>
      [] pattern = "%Y-%m-%d"          -> <<t.Y, t.M, t.D>>
      [] pattern = "%G-%V"             -> IsoYearWeek(t)
      [] pattern = "%Y-%m"             -> <<t.Y, t.M>>
      [] pattern = "%Y"                -> <<t.Y>>

Archive(name, timestamp) == [name |-> name, timestamp |-> timestamp]

KeepSpec(timepattern, num) == [timepattern |-> timepattern, num |-> num]

-----------------------------------------------------------------------------
(* The retention selector *)

\* The loop of arc_names_to_keep from position i on, with n names yielded so
\* far and prev_ts the last yielded bucket (<<>> stands for None: no strftime
\* result is empty).
RECURSIVE KeepLoop(_, _, _, _, _)
KeepLoop(as, k, i, n, prev_ts) ==
    IF i > Len(as) THEN <<>>
    ELSE IF n = k.num THEN <<>>
    ELSE LET ts == strftime(as[i].timestamp, k.timepattern)
         IN  IF ts # prev_ts
             THEN <<as[i].name>> \o KeepLoop(as, k, i + 1, n + 1, ts)
             ELSE KeepLoop(as, k, i + 1, n, prev_ts)

\* Mutant: a plain top-N selection, every archive walked over counts
RECURSIVE KeepLoopTopN(_, _, _, _, _)
KeepLoopTopN(as, k, i, n, prev_ts) ==
    IF i > Len(as) THEN <<>>
    ELSE IF n = k.num THEN <<>>
    ELSE LET ts == strftime(as[i].timestamp, k.timepattern)
         IN  IF ts # prev_ts
             THEN <<as[i].name>> \o KeepLoopTopN(as, k, i + 1, n + 1, ts)
             ELSE KeepLoopTopN(as, k, i + 1, n + 1, prev_ts)

arc_names_to_keep_TopN(as, k) == KeepLoopTopN(as, k, 1, 0, <<>>)

arc_names_to_keep(as, k) == KeepLoop(as, k, 1, 0, <<>>)

\* list.sort(key=attrgetter('timestamp'), reverse=True): stable, so archives
\* with equal timestamps keep their relative order.
\* Mutant: reverse=True forgotten
RECURSIVE InsertDesc_Ascending(_, _)
InsertDesc_Ascending(sorted, a) ==
    IF sorted = <<>> THEN <<a>>
    ELSE IF DtLess(a.timestamp, Head(sorted).timestamp)
         THEN <<a>> \o sorted
         ELSE <<Head(sorted)>> \o InsertDesc_Ascending(Tail(sorted), a)

RECURSIVE InsertDesc(_, _)
InsertDesc(sorted, a) ==
    IF sorted = <<>> THEN <<a>>
    ELSE IF DtLess(Head(sorted).timestamp, a.timestamp)
         THEN <<a>> \o sorted
         ELSE <<Head(sorted)>> \o InsertDesc(Tail(sorted), a)

\* Mutant: the sort left out
SortDesc_Unsorted(as) == as

RECURSIVE SortDesc(_)
SortDesc(as) ==
    IF as = <<>> THEN <<>>
    ELSE InsertDesc(SortDesc(SubSeq(as, 1, Len(as) - 1)), as[Len(as)])

\* Mutant: only the first keep-spec is applied
KeepSet_FirstOnly(as, specs) ==
    IF specs = <<>> THEN {} ELSE Range(arc_names_to_keep(as, specs[1]))

\* keep = set(); for ks in kss: for name in arc_names_to_keep(arcs, ks): add
KeepSet(as, specs) ==
    UNION {Range(arc_names_to_keep(as, specs[i])) : i \in 1..Len(specs)}

\* for arc in arcs: if arc.name not in keep: yield arc.name
RECURSIVE YieldNotKept(_, _)
YieldNotKept(as, keep) ==
    IF as = <<>> THEN <<>>
    ELSE (IF Head(as).name \in keep THEN <<>> ELSE <<Head(as).name>>)
         \o YieldNotKept(Tail(as), keep)

\* Mutant: a sorted copy is walked for the keep set, the caller's list is
\* left alone and walked for the names to yield
arc_names_to_delete_SortedCopy(as, specs) ==
    [arcs |-> as, yielded |-> YieldNotKept(as, KeepSet(SortDesc(as), specs))]

\* arc_names_to_delete(arcs, kss): the caller's list after the call (it is
\* sorted in place) and the names yielded.
arc_names_to_delete(as, specs) ==
    LET sorted == SortDesc(as)
    IN  [arcs |-> sorted, yielded |-> YieldNotKept(sorted, KeepSet(sorted, specs))]

-----------------------------------------------------------------------------
(* Text: str.split, str.splitlines, int, and the two regular expressions *)

\* [0-9], the ASCII digits
AsciiDigits == <<"0", "1", "2", "3", "4", "5", "6", "7", "8", "9">>

IsAsciiDigit(c) == \E d \in 1..10 : AsciiDigits[d] = c

\* \d of the re module on a str pattern: the decimal digits of Unicode
\* (category Nd), one row per script from its zero to its nine. These are the
\* rows a TLA+ string can hold (from U+0030, U+06F0, U+07C0, U+09E6, U+0AE6,
\* U+0BE6, U+0CE6, U+0DE6, U+0ED0, U+1090, U+17E0, U+19D0, U+1A80, U+1A90,
\* U+1BB0, U+A8D0, U+A9D0, U+A9F0 and U+ABF0 on); the digits of the other
\* scripts are matched by \d too, but no text of the model holds them.
Digits ==
    <<<<"0", "1", "2", "3", "4", "5", "6", "7", "8", "9">>,
      <<"۰", "۱", "۲", "۳", "۴", "۵", "۶", "۷", "۸", "۹">>,
      <<"߀", "߁", "߂", "߃", "߄", "߅", "߆", "߇", "߈", "߉">>,
      <<"০", "১", "২", "৩", "৪", "৫", "৬", "৭", "৮", "৯">>,
      <<"૦", "૧", "૨", "૩", "૪", "૫", "૬", "૭", "૮", "૯">>,
      <<"௦", "௧", "௨", "௩", "௪", "௫", "௬", "௭", "௮", "௯">>,
      <<"೦", "೧", "೨", "೩", "೪", "೫", "೬", "೭", "೮", "೯">>,
      <<"෦", "෧", "෨", "෩", "෪", "෫", "෬", "෭", "෮", "෯">>,
      <<"໐", "໑", "໒", "໓", "໔", "໕", "໖", "໗", "໘", "໙">>,
      <<"႐", "႑", "႒", "႓", "႔", "႕", "႖", "႗", "႘", "႙">>,
      <<"០", "១", "២", "៣", "៤", "៥", "៦", "៧", "៨", "៩">>,
      <<"᧐", "᧑", "᧒", "᧓", "᧔", "᧕", "᧖", "᧗", "᧘", "᧙">>,
      <<"᪀", "᪁", "᪂", "᪃", "᪄", "᪅", "᪆", "᪇", "᪈", "᪉">>,
      <<"᪐", "᪑", "᪒", "᪓", "᪔", "᪕", "᪖", "᪗", "᪘", "᪙">>,
      <<"᮰", "᮱", "᮲", "᮳", "᮴", "᮵", "᮶", "᮷", "᮸", "᮹">>,
      <<"꣐", "꣑", "꣒", "꣓", "꣔", "꣕", "꣖", "꣗", "꣘", "꣙">>,
      <<"꧐", "꧑", "꧒", "꧓", "꧔", "꧕", "꧖", "꧗", "꧘", "꧙">>,
      <<"꧰", "꧱", "꧲", "꧳", "꧴", "꧵", "꧶", "꧷", "꧸", "꧹">>,
      <<"꯰", "꯱", "꯲", "꯳", "꯴", "꯵", "꯶", "꯷", "꯸", "꯹">>>>

IsDigit(c) == \E r \in 1..Len(Digits) : \E d \in 1..10 : Digits[r][d] = c

\* int() of one digit
DigitValue(c) == (CHOOSE d \in 1..10 : \E r \in 1..Len(Digits) : Digits[r][d] = c) - 1

\* int(s) for a non-empty run of digits
RECURSIVE int(_)
int(s) == IF s = <<>> THEN 0 ELSE 10 * int(SubSeq(s, 1, Len(s) - 1)) + DigitValue(s[Len(s)])

\* s.split(sep) for a one-character sep: always at least one field
RECURSIVE split(_, _)
split(s, sep) ==
    IF \A i \in 1..Len(s) : s[i] # sep THEN <<s>>
    ELSE LET i == CHOOSE j \in 1..Len(s) :
                      s[j] = sep /\ \A k \in 1..(j - 1) : s[k] # sep
         IN  <<SubSeq(s, 1, i - 1)>> \o split(SubSeq(s, i + 1, Len(s)), sep)

\* The line boundaries of str.splitlines: \n, \r, \x0b, \x0c, \x1c, \x1d,
\* \x1e and \x85, written as the characters themselves where TLA+ has no
\* escape. U+2028 and U+2029 are line boundaries too; a TLA+ string cannot
\* hold them, so no text of the model does.
LineBreaks == {"\n", "\r", "", "\f", "", "", "", ""}

\* s.splitlines(): the lines without their line breaks, "\r\n" being one
\* line break; no empty last line
RECURSIVE splitlines(_)
splitlines(s) ==
    IF s = <<>> THEN <<>>
    ELSE IF \A i \in 1..Len(s) : s[i] \notin LineBreaks THEN <<s>>
    ELSE LET i == CHOOSE j \in 1..Len(s) :
                      s[j] \in LineBreaks /\ \A k \in 1..(j - 1) : s[k] \notin LineBreaks
             w == IF s[i] = "\r" /\ i < Len(s) /\ s[i + 1] = "\n" THEN 2 ELSE 1
         IN  <<SubSeq(s, 1, i - 1)>> \o splitlines(SubSeq(s, i + w, Len(s)))

\* line.rstrip('\n')
RECURSIVE rstrip_newline(_)
rstrip_newline(s) ==
    IF s # <<>> /\ s[Len(s)] = "\n" THEN rstrip_newline(SubSeq(s, 1, Len(s) - 1))
    ELSE s

\* The granularity tags, spelled out as text
TagText ==
    [tag \in DOMAIN TIME_PATTERNS |->
        CASE tag = "s"   -> <<"s">>
          [] tag = "min" -> <<"m", "i", "n">>
          [] tag = "h"   -> <<"h">>
          [] tag = "d"   -> <<"d">>
          [] tag = "w"   -> <<"w">>
          [] tag = "mon" -> <<"m", "o", "n">>
          [] tag = "y"   -> <<"y">>]

\* KEEP_SPEC_PATTERN.fullmatch(s): the set of <<group(1), group(2)>> splits
\* of s into (\d+) and one of the tags; empty when there is no match. As no
\* tag holds a digit there is at most one. \d takes every digit of Digits.
KEEP_SPEC_PATTERN_fullmatch(s) ==
    {<<SubSeq(s, 1, k), tag>> : <<k, tag>> \in
        {<<k, tag>> \in (1..Len(s)) \X DOMAIN TIME_PATTERNS :
            /\ \A i \in 1..k : IsDigit(s[i])
            /\ SubSeq(s, k + 1, Len(s)) = TagText[tag]}}

\* NAME_RE.fullmatch(name) is not None: '.' takes any character but "\n",
\* and the optional suffix holds none
NAME_RE_matches(name) == \A i \in 1..Len(name) : name[i] # "\n"

\* Mutant: (.*) in place of (.*?), greedy, takes the whole name
NAME_RE_group1_Greedy(name) == name

\* NAME_RE.fullmatch(name).group(1): (.*?) is lazy, so it is the shortest
\* prefix after which the rest is empty or a '-' followed by characters of
\* [0-9-] only. The empty rest always matches, so fullmatch never fails on a name
\* without a line break.
NAME_RE_group1(name) ==
    LET SuffixOk(k) ==
            \/ k = Len(name)
            \/ /\ name[k + 1] = "-"
               /\ \A i \in (k + 2)..Len(name) : IsAsciiDigit(name[i]) \/ name[i] = "-"
        k == CHOOSE j \in 0..Len(name) :
                 SuffixOk(j) /\ \A i \in 0..(j - 1) : ~SuffixOk(i)
    IN  SubSeq(name, 1, k)

RuntimeError(msg) == [ok |-> FALSE, error |-> "RuntimeError", msg |-> msg]

ValueError == [ok |-> FALSE, error |-> "ValueError"]

Return(v) == [ok |-> TRUE, value |-> v]

\* parse_keep_specs(spec): the list of KeepSpecs, or the RuntimeError raised
\* at the first token that does not match
RECURSIVE ParseTokens(_)
ParseTokens(tokens) ==
    IF tokens = <<>> THEN Return(<<>>)
    ELSE LET m == KEEP_SPEC_PATTERN_fullmatch(Head(tokens))
         IN  IF m # {}
             THEN LET g == CHOOSE x \in m : TRUE
                      rest == ParseTokens(Tail(tokens))
                  IN  IF rest.ok
                      THEN Return(<<KeepSpec(TIME_PATTERNS[g[2]], int(g[1]))>>
                                  \o rest.value)
                      ELSE rest
             ELSE RuntimeError(Head(tokens))

parse_keep_specs(spec) == ParseTokens(split(spec, ","))

-----------------------------------------------------------------------------
(* datetime.strptime(ts_str, "%Y-%m-%d %H:%M:%S") *)

\* \d\d\d\d of %Y: the value of the w digits of s from position i, or -1 if
\* they are not all there
NumAt(s, i, w) ==
    IF i >= 1 /\ i + w - 1 <= Len(s) /\ \A j \in i..(i + w - 1) : IsDigit(s[j])
    THEN int(SubSeq(s, i, i + w - 1))
    ELSE -1

NoField == <<-1, 0>>

\* [lo-hi]
AsciiClass(lo, hi) == {AsciiDigits[k + 1] : k \in lo..hi}

\* \d
DigitClass == {Digits[r][d] : r \in 1..Len(Digits), d \in 1..10}

\* The patterns of the numeric directives, each a list of alternatives in the
\* order the pattern tries them, each alternative a list of character classes:
\* %m is 1[0-2]|0[1-9]|[1-9]
MonthAlts ==
    <<<<AsciiClass(1, 1), AsciiClass(0, 2)>>, <<AsciiClass(0, 0), AsciiClass(1, 9)>>,
      <<AsciiClass(1, 9)>>>>

\* %d is 3[0-1]|[1-2]\d|0[1-9]|[1-9]| [1-9], the last alternative in DayAt
DayAlts ==
    <<<<AsciiClass(3, 3), AsciiClass(0, 1)>>, <<AsciiClass(1, 2), DigitClass>>,
      <<AsciiClass(0, 0), AsciiClass(1, 9)>>, <<AsciiClass(1, 9)>>>>

\* %H is 2[0-3]|[0-1]\d|\d
HourAlts ==
    <<<<AsciiClass(2, 2), AsciiClass(0, 3)>>, <<AsciiClass(0, 1), DigitClass>>,
      <<DigitClass>>>>

\* %M is [0-5]\d|\d
MinuteAlts == <<<<AsciiClass(0, 5), DigitClass>>, <<DigitClass>>>>

\* %S is 6[0-1]|[0-5]\d|\d
SecondAlts ==
    <<<<AsciiClass(6, 6), AsciiClass(0, 1)>>, <<AsciiClass(0, 5), DigitClass>>,
      <<DigitClass>>>>

\* one alternative at position i
AltAt(s, i, alt) ==
    /\ i >= 1
    /\ i + Len(alt) - 1 <= Len(s)
    /\ \A j \in 1..Len(alt) : s[i + j - 1] \in alt[j]

\* A numeric directive at position i: <<value, next position>> of the first
\* alternative that matches. A shorter alternative after it would leave a
\* digit where the format has '-', ':', a blank or the end, so the first is
\* the only one the whole match can use.
FieldAt(s, i, alts) ==
    IF \E a \in 1..Len(alts) : AltAt(s, i, alts[a])
    THEN LET a == CHOOSE b \in 1..Len(alts) :
                      AltAt(s, i, alts[b]) /\ \A c \in 1..(b - 1) : ~AltAt(s, i, alts[c])
         IN  <<int(SubSeq(s, i, i + Len(alts[a]) - 1)), i + Len(alts[a])>>
    ELSE NoField

\* %d also takes a space and one digit of [1-9]
DayAt(s, i) ==
    IF FieldAt(s, i, DayAlts) # NoField THEN FieldAt(s, i, DayAlts)
    ELSE IF AltAt(s, i, <<{" "}, AsciiClass(1, 9)>>)
         THEN <<DigitValue(s[i + 1]), i + 2>>
         ELSE NoField

\* a literal character of the format
LitAt(s, i, c) == IF i >= 1 /\ i <= Len(s) /\ s[i] = c THEN i + 1 ELSE 0

\* \s of the re module on a str pattern, as far as a TLA+ string can hold
\* it: the blanks up to U+00A0 and U+1680. U+2000 to U+200A, U+2028, U+2029,
\* U+202F, U+205F and U+3000 are matched by \s too, but no text of the model
\* holds them.
Whitespace ==
    {" ", "\t", "\n", "\r", "", "\f", "", "", "", "", "", " ", " "}

\* the format's space, \s+: one or more whitespace characters
RECURSIVE SkipBlanks(_, _)
SkipBlanks(s, i) ==
    IF i >= 1 /\ i <= Len(s) /\ s[i] \in Whitespace THEN SkipBlanks(s, i + 1) ELSE i

BlanksAt(s, i) ==
    IF i >= 1 /\ i <= Len(s) /\ s[i] \in Whitespace THEN SkipBlanks(s, i) ELSE 0

strptime(s) ==
    LET Y  == IF NumAt(s, 1, 4) >= 0 THEN <<NumAt(s, 1, 4), 5>> ELSE NoField
        M  == FieldAt(s, LitAt(s, Y[2], "-"), MonthAlts)
        D  == DayAt(s, LitAt(s, M[2], "-"))
        h  == FieldAt(s, BlanksAt(s, D[2]), HourAlts)
        mi == FieldAt(s, LitAt(s, h[2], ":"), MinuteAlts)
        sc == FieldAt(s, LitAt(s, mi[2], ":"), SecondAlts)
    IN  IF /\ sc # NoField
           /\ sc[2] = Len(s) + 1
           /\ Y[1] >= 1
           /\ D[1] <= DaysInMonth(Y[1], M[1])
           /\ sc[1] <= 59
        THEN Return(DT(Y[1], M[1], D[1], h[1], mi[1], sc[1]))
        ELSE ValueError

-----------------------------------------------------------------------------
(* parse_arcs *)

\* result[base].append(arc) on a dict kept as its items in insertion order
DictAppend(d, base, arc) ==
    IF \E i \in 1..Len(d) : d[i].base = base
    THEN [i \in 1..Len(d) |->
            IF d[i].base = base
            THEN [base |-> base, arcs |-> Append(d[i].arcs, arc)]
            ELSE d[i]]
    ELSE Append(d, [base |-> base, arcs |-> <<arc>>])

\* one iteration of the loop of parse_arcs
ParseLine(d, line0) ==
    LET line == rstrip_newline(line0)
        fields == split(line, "\t")
    IN  IF Len(fields) # 2 THEN ValueError
        ELSE LET ts == strptime(fields[2])
             IN  IF ~ts.ok THEN ValueError
                 ELSE IF ~NAME_RE_matches(fields[1]) THEN RuntimeError(line)
                 ELSE Return(DictAppend(d, NAME_RE_group1(fields[1]),
                                        Archive(fields[1], ts.value)))

RECURSIVE ParseLines(_, _)
ParseLines(d, lines) ==
    IF lines = <<>> THEN Return(d)
    ELSE LET r == ParseLine(d, Head(lines))
         IN  IF r.ok THEN ParseLines(r.value, Tail(lines)) ELSE r

parse_arcs(listing) == ParseLines(<<>>, splitlines(listing))

-----------------------------------------------------------------------------
(* Inputs *)

\* Timestamps on both sides of a day, an ISO week, a month and a year
\* boundary, two of them within one minute
TimestampPool ==
    {DT(2008, 12, 28, 23, 59, 59), DT(2008, 12, 29, 0, 0, 0),
     DT(2009, 1, 1, 0, 0, 0), DT(2009, 1, 1, 0, 0, 30)}

KeepSpecPool == {KeepSpec(p, n) : p \in Patterns, n \in 0..MaxNum}

\* Policies of zero, one or two keep-specs
Policies ==
    {<<>>} \cup {<<a>> : a \in KeepSpecPool}
           \cup {<<a, b>> : <<a, b>> \in KeepSpecPool \X KeepSpecPool}

\* Families of up to max archives with distinct one-digit names, numbered
\* up or down the list, with any timestamps of the pool (equal ones included)
Families(max) ==
    UNION {{[i \in 1..n |->
                Archive(<<AsciiDigits[(IF up THEN i ELSE n + 1 - i) + 1]>>, tsf[i])] :
            <<tsf, up>> \in [1..n -> TimestampPool] \X BOOLEAN} : n \in 0..max}

IsSortedDesc(as) ==
    \A i \in 1..(Len(as) - 1) : ~DtLess(as[i].timestamp, as[i + 1].timestamp)

Idle ==
    /\ text = <<>>
    /\ dry_run = FALSE
    /\ env = <<>>
    /\ arcs_str = <<>>
    /\ keep_specs = <<>>
    /\ arcs_dict = <<>>
    /\ to_delete = <<>>
    /\ commands = <<>>
    /\ stdout = <<>>
    /\ exit_code = -1

-----------------------------------------------------------------------------
(* The selector called on its own *)

InitKeep ==
    /\ mode = "keep"
    /\ pc = "call"
    /\ arcs \in {f \in Families(MaxSorted) : IsSortedDesc(f)}
    /\ arcs0 = arcs
    /\ kss = <<>>
    /\ ks \in KeepSpecPool
    /\ result = <<>>
    /\ Idle

\* list(arc_names_to_keep(arcs, ks))
CallKeep ==
    /\ mode = "keep" /\ pc = "call"
    /\ result' = arc_names_to_keep(arcs, ks)
    /\ pc' = "returned"
    /\ UNCHANGED <<mode, arcs, arcs0, kss, ks, text, dry_run, env, arcs_str,
                   keep_specs, arcs_dict, to_delete, commands, stdout,
                   exit_code>>

NextKeep == CallKeep

SpecKeep == InitKeep /\ [][NextKeep]_vars

InitDelete ==
    /\ mode = "delete"
    /\ pc = "call"
    /\ arcs \in Families(MaxArcs)
    /\ arcs0 = arcs
    /\ kss \in Policies
    /\ ks = <<>>
    /\ result = <<>>
    /\ Idle

\* list(arc_names_to_delete(arcs, kss))
CallDelete ==
    /\ mode = "delete" /\ pc = "call"
    /\ arcs' = arc_names_to_delete(arcs, kss).arcs
    /\ result' = arc_names_to_delete(arcs, kss).yielded
    /\ pc' = "returned"
    /\ UNCHANGED <<mode, arcs0, kss, ks, text, dry_run, env, arcs_str,
                   keep_specs, arcs_dict, to_delete, commands, stdout,
                   exit_code>>

NextDelete == CallDelete

SpecDelete == InitDelete /\ [][NextDelete]_vars

-----------------------------------------------------------------------------
(* The parsers called on their own *)

\* with one digit that is not ASCII, U+06F3 (three)
PolicyAlphabet == {"0", "1", "۳", ",", "d", "m", "o", "n"}

InitKeepSpecs ==
    /\ mode = "parse_keep_specs"
    /\ pc = "call"
    /\ text \in SeqsUpTo(PolicyAlphabet, MaxText)
    /\ arcs = <<>> /\ arcs0 = <<>> /\ kss = <<>> /\ ks = <<>> /\ result = <<>>
    /\ dry_run = FALSE /\ env = <<>> /\ arcs_str = <<>> /\ keep_specs = <<>>
    /\ arcs_dict = <<>> /\ to_delete = <<>> /\ commands = <<>> /\ stdout = <<>> /\ exit_code = -1

\* parse_keep_specs(text)
CallParseKeepSpecs ==
    /\ mode = "parse_keep_specs" /\ pc = "call"
    /\ result' = parse_keep_specs(text)
    /\ pc' = "returned"
    /\ UNCHANGED <<mode, arcs, arcs0, kss, ks, text, dry_run, env, arcs_str,
                   keep_specs, arcs_dict, to_delete, commands, stdout,
                   exit_code>>

NextKeepSpecs == CallParseKeepSpecs

SpecKeepSpecs == InitKeepSpecs /\ [][NextKeepSpecs]_vars

\* What `tarsnap --list-archives -v` prints under TZ=UTC: one line per
\* archive, the name, a tab, the creation time as %Y-%m-%d %H:%M:%S.
Pad2(n) == <<AsciiDigits[(n \div 10) + 1], AsciiDigits[(n % 10) + 1]>>

FormatTimestamp(t) ==
    Pad2(t.Y \div 100) \o Pad2(t.Y % 100) \o <<"-">> \o Pad2(t.M) \o <<"-">>
    \o Pad2(t.D) \o <<" ">> \o Pad2(t.h) \o <<":">> \o Pad2(t.mi) \o <<":">>
    \o Pad2(t.s)

RECURSIVE Join(_, _)
Join(fields, sep) ==
    IF fields = <<>> THEN <<>>
    ELSE IF Len(fields) = 1 THEN Head(fields)
    ELSE Head(fields) \o <<sep>> \o Join(Tail(fields), sep)

\* The text of a listing given as its lines, each given as its fields
ListingText(lines) ==
    Flatten([i \in 1..Len(lines) |-> Join(lines[i], "\t") \o <<"\n">>])

NameAlphabet == {"a", "-", "1"}

ListingNames == SeqsUpTo(NameAlphabet, MaxName)

\* Lines of a listing: every name at one time, one name at another time too,
\* three malformed lines (empty, a bad time, a third field), a name holding a
\* form feed (two lines to splitlines), a line ending in "\r\n", a name
\* ending in '-' and a digit outside [0-9], a time with U+1680 for its blank
\* and a time with digits outside [0-9]
ListingLines ==
    {<<n, FormatTimestamp(DT(2009, 1, 1, 0, 0, 0))>> : n \in ListingNames}
    \cup {<<<<"a">>, FormatTimestamp(DT(2008, 12, 29, 0, 0, 0))>>,
          <<<<>>>>,
          <<<<"a">>, <<"a">>>>,
          <<<<"a">>, FormatTimestamp(DT(2009, 1, 1, 0, 0, 0)), <<>>>>,
          <<<<"a", "\f">>, FormatTimestamp(DT(2009, 1, 1, 0, 0, 0))>>,
          <<<<"a">>, FormatTimestamp(DT(2008, 12, 29, 0, 0, 0)) \o <<"\r">>>>,
          <<<<"a", "-", "۳">>, FormatTimestamp(DT(2009, 1, 1, 0, 0, 0))>>,
          <<<<"a">>, <<"2", "0", "0", "9", "-", "0", "1", "-", "0", "1", " ",
                      "0", "0", ":", "0", "0", ":", "0", "0">>>>,
          <<<<"a">>, <<"2", "۰", "۰", "۸", "-", "1", "2", "-", "2", "۹", " ",
                      "1", "۳", ":", "5", "۳", ":", "۳">>>>}

InitArcs ==
    /\ mode = "parse_arcs"
    /\ pc = "call"
    /\ arcs0 \in SeqsUpTo(ListingLines, MaxLines)
    /\ text = ListingText(arcs0)
    /\ arcs = <<>> /\ kss = <<>> /\ ks = <<>> /\ result = <<>>
    /\ dry_run = FALSE /\ env = <<>> /\ arcs_str = <<>> /\ keep_specs = <<>>
    /\ arcs_dict = <<>> /\ to_delete = <<>> /\ commands = <<>> /\ stdout = <<>> /\ exit_code = -1

\* parse_arcs(text)
CallParseArcs ==
    /\ mode = "parse_arcs" /\ pc = "call"
    /\ result' = parse_arcs(text)
    /\ pc' = "returned"
    /\ UNCHANGED <<mode, arcs, arcs0, kss, ks, text, dry_run, env, arcs_str,
                   keep_specs, arcs_dict, to_delete, commands, stdout,
                   exit_code>>

NextArcs == CallParseArcs

SpecArcs == InitArcs /\ [][NextArcs]_vars

-----------------------------------------------------------------------------
(* run() under __main__ *)

\* Code points of the characters the model uses, for str.__lt__
CharTable ==
    <<"\t", "\n", "", "\f", "\r", "", "", "", "", " ", ",", "-", "0", "1", "2", "3", "4", "5", "6", "7", "8",
      "9", ":", "a", "b", "c", "d", "e", "f", "g", "h", "i", "j", "k", "l", "m",
      "n", "o", "p", "q", "r", "s", "t", "u", "v", "w", "x", "y", "z", "",
      " ",
      "۰", "۱", "۲", "۳", "۴", "۵", "۶", "۷", "۸", "۹",
      "߀", "߁", "߂", "߃", "߄", "߅", "߆", "߇", "߈", "߉",
      "০", "১", "২", "৩", "৪", "৫", "৬", "৭", "৮", "৯",
      "૦", "૧", "૨", "૩", "૪", "૫", "૬", "૭", "૮", "૯",
      "௦", "௧", "௨", "௩", "௪", "௫", "௬", "௭", "௮", "௯",
      "೦", "೧", "೨", "೩", "೪", "೫", "೬", "೭", "೮", "೯",
      "෦", "෧", "෨", "෩", "෪", "෫", "෬", "෭", "෮", "෯",
      "໐", "໑", "໒", "໓", "໔", "໕", "໖", "໗", "໘", "໙",
      "႐", "႑", "႒", "႓", "႔", "႕", "႖", "႗", "႘", "႙",
      " ", "០", "១", "២", "៣", "៤", "៥", "៦", "៧", "៨",
      "៩", "᧐", "᧑", "᧒", "᧓", "᧔", "᧕", "᧖", "᧗", "᧘",
      "᧙", "᪀", "᪁", "᪂", "᪃", "᪄", "᪅", "᪆", "᪇", "᪈",
      "᪉", "᪐", "᪑", "᪒", "᪓", "᪔", "᪕", "᪖", "᪗", "᪘",
      "᪙", "᮰", "᮱", "᮲", "᮳", "᮴", "᮵", "᮶", "᮷", "᮸",
      "᮹", "꣐", "꣑", "꣒", "꣓", "꣔", "꣕", "꣖", "꣗", "꣘",
      "꣙", "꧐", "꧑", "꧒", "꧓", "꧔", "꧕", "꧖", "꧗", "꧘",
      "꧙", "꧰", "꧱", "꧲", "꧳", "꧴", "꧵", "꧶", "꧷", "꧸",
      "꧹", "꯰", "꯱", "꯲", "꯳", "꯴", "꯵", "꯶", "꯷", "꯸",
      "꯹">>

Ord(c) == CHOOSE i \in 1..Len(CharTable) : CharTable[i] = c

\* str.__lt__
StrLess(a, b) ==
    \/ \E i \in 1..Len(a) :
          /\ i <= Len(b)
          /\ Ord(a[i]) < Ord(b[i])
          /\ \A j \in 1..(i - 1) : a[j] = b[j]
    \/ Len(a) < Len(b) /\ \A j \in 1..Len(a) : a[j] = b[j]

\* sorted(names)
RECURSIVE InsertStr(_, _)
InsertStr(ss, a) ==
    IF ss = <<>> THEN <<a>>
    ELSE IF StrLess(a, Head(ss)) THEN <<a>> \o ss
    ELSE <<Head(ss)>> \o InsertStr(Tail(ss), a)

RECURSIVE sorted(_)
sorted(names) ==
    IF names = <<>> THEN <<>>
    ELSE InsertStr(sorted(SubSeq(names, 1, Len(names) - 1)), names[Len(names)])

\* a set as a sequence, in sorted order: sorted(a_set)
RECURSIVE SortedSet(_)
SortedSet(S) ==
    IF S = {} THEN <<>>
    ELSE LET m == CHOOSE x \in S : \A y \in S : ~StrLess(y, x)
         IN  <<m>> \o SortedSet(S \ {m})

plural_s(n) == IF n = 1 THEN "" ELSE "s"

\* print_arcs(arc_names), for names already sorted
print_arcs(names) == [i \in 1..Len(names) |-> [fmt |-> "  {}", name |-> names[i]]]

HasDuplicates(names) ==
    \E i, j \in 1..Len(names) : i < j /\ names[i] = names[j]

AllArcNames(d) == UNION {{d[i].arcs[j].name : j \in 1..Len(d[i].arcs)} : i \in 1..Len(d)}

\* remaining_arc_names(arcs_dict, to_delete): set.remove raises KeyError when
\* a name is removed a second time
remaining_arc_names(d, del) ==
    IF HasDuplicates(del) \/ ~(Range(del) \subseteq AllArcNames(d))
    THEN [ok |-> FALSE, error |-> "KeyError"]
    ELSE Return(AllArcNames(d) \ Range(del))

\* What report_action prints before it computes the remaining names
ReportHead(del, dry) ==
    <<[fmt |-> "{} delete the following {} archive{}:",
       verb |-> IF dry THEN "Would" ELSE "Will",
       n |-> Len(del), s |-> plural_s(Len(del))]>>
    \o print_arcs(sorted(del))

\* and what it prints after
ReportTail(remaining) ==
    <<[fmt |-> "Leaving the following {} remaining archive{}:",
       n |-> Cardinality(remaining), s |-> plural_s(Cardinality(remaining))]>>
    \o print_arcs(SortedSet(remaining))

\* for arcs in arcs_dict.values(): to_delete += arc_names_to_delete(arcs, kss)
\* Each family's list is sorted in place by the call.
SelectAll(d, specs) ==
    [dict |-> [i \in 1..Len(d) |->
                  [base |-> d[i].base,
                   arcs |-> arc_names_to_delete(d[i].arcs, specs).arcs]],
     to_delete |-> Flatten([i \in 1..Len(d) |->
                               arc_names_to_delete(d[i].arcs, specs).yielded])]

ExitStatuses == {0, 1}

\* The policy strings given on the command line
RunPolicies ==
    SeqsUpTo({"0", "1", "d"}, 2)
    \cup {<<"2", "y">>, <<"1", "d", ",", "1", "y">>, <<"۲", "y">>}

RunLines ==
    {<<n, FormatTimestamp(t)>> :
        <<n, t>> \in {<<"a">>, <<"a", "-", "1">>, <<"b">>}
                     \X {DT(2008, 12, 29, 0, 0, 0), DT(2009, 1, 1, 0, 0, 0)}}
    \cup {<<<<"a">>, <<"a">>>>,
          <<<<"a", "\f", "b">>, FormatTimestamp(DT(2009, 1, 1, 0, 0, 0))>>}

\* What tarsnap may print for --list-archives -v
RunListings == {ListingText(ls) : ls \in SeqsUpTo(RunLines, MaxLines)}

Init ==
    /\ mode = "run"
    /\ pc = "parse_keep_specs"
    /\ text \in RunPolicies
    /\ dry_run \in BOOLEAN
    /\ env = [list |-> -1, delete |-> -1]
    /\ arcs_str = <<>>
    /\ keep_specs = <<>>
    /\ arcs_dict = <<>>
    /\ to_delete = <<>>
    /\ commands = <<>>
    /\ stdout = <<>>
    /\ exit_code = -1
    /\ arcs = <<>> /\ arcs0 = <<>> /\ kss = <<>> /\ ks = <<>> /\ result = <<>>

RunUnchanged == UNCHANGED <<mode, arcs, arcs0, kss, ks, result, text, dry_run>>

\* Mutant: the error of parse_keep_specs is swallowed and the run goes on
\* with no keep-spec
RunParseKeepSpecs_IgnoresError ==
    /\ mode = "run" /\ pc = "parse_keep_specs"
    /\ LET r == parse_keep_specs(text)
       IN  keep_specs' = IF r.ok THEN r.value ELSE <<>>
    /\ pc' = "list_archives"
    /\ UNCHANGED <<stdout, exit_code, env, arcs_str, arcs_dict, to_delete,
                   commands>>
    /\ RunUnchanged

\* keep_specs = parse_keep_specs(keep_specs_str); a RuntimeError is printed
\* by __main__, which exits with status 1
RunParseKeepSpecs ==
    /\ mode = "run" /\ pc = "parse_keep_specs"
    /\ LET r == parse_keep_specs(text)
       IN  IF r.ok
           THEN /\ keep_specs' = r.value
                /\ pc' = "list_archives"
                /\ UNCHANGED <<stdout, exit_code>>
           ELSE /\ stdout' = Append(stdout, [fmt |-> "invalid keep spec: '{}'",
                                            token |-> r.msg])
                /\ exit_code' = 1
                /\ pc' = "exited"
                /\ UNCHANGED keep_specs
    /\ UNCHANGED <<env, arcs_str, arcs_dict, to_delete, commands>>
    /\ RunUnchanged

\* arcs_str = tarsnap.list_archives(): subprocess.run(..., check=True), so a
\* non-zero exit status raises CalledProcessError, which __main__ reports
RunListArchives ==
    /\ mode = "run" /\ pc = "list_archives"
    /\ commands' = Append(commands, [op |-> "--list-archives", files |-> <<>>])
    /\ \E rc \in ExitStatuses, out \in RunListings :
          /\ env' = [env EXCEPT !.list = rc]
          /\ IF rc = 0
             THEN /\ arcs_str' = out
                  /\ pc' = "parse_arcs"
                  /\ UNCHANGED <<stdout, exit_code>>
             ELSE /\ stdout' = Append(stdout,
                        [fmt |-> "Command '{}' failed with exit status {}",
                         cmd |-> "--list-archives", status |-> rc])
                  /\ exit_code' = 1
                  /\ pc' = "exited"
                  /\ UNCHANGED arcs_str
    /\ UNCHANGED <<keep_specs, arcs_dict, to_delete>>
    /\ RunUnchanged

\* arcs_dict = parse_arcs(arcs_str); its ValueError is caught nowhere: the
\* interpreter prints a traceback to stderr and exits with status 1
RunParseArcs ==
    /\ mode = "run" /\ pc = "parse_arcs"
    /\ LET r == parse_arcs(arcs_str)
       IN  IF r.ok
           THEN /\ arcs_dict' = r.value
                /\ pc' = "select"
                /\ UNCHANGED exit_code
           ELSE /\ exit_code' = 1
                /\ pc' = "exited"
                /\ UNCHANGED arcs_dict
    /\ UNCHANGED <<env, arcs_str, keep_specs, to_delete, commands, stdout>>
    /\ RunUnchanged

\* the loop over arcs_dict.values()
RunSelect ==
    /\ mode = "run" /\ pc = "select"
    /\ arcs_dict' = SelectAll(arcs_dict, keep_specs).dict
    /\ to_delete' = SelectAll(arcs_dict, keep_specs).to_delete
    /\ pc' = "report"
    /\ UNCHANGED <<env, arcs_str, keep_specs, commands, stdout, exit_code>>
    /\ RunUnchanged

\* report_action(arcs_dict, to_delete, dry_run); a KeyError out of
\* remaining_arc_names is caught nowhere either
RunReport ==
    /\ mode = "run" /\ pc = "report"
    /\ LET r == remaining_arc_names(arcs_dict, to_delete)
       IN  IF r.ok
           THEN /\ stdout' = stdout \o ReportHead(to_delete, dry_run)
                                    \o ReportTail(r.value)
                /\ pc' = "delete"
                /\ UNCHANGED exit_code
           ELSE /\ stdout' = stdout \o ReportHead(to_delete, dry_run)
                /\ exit_code' = 1
                /\ pc' = "exited"
    /\ UNCHANGED <<env, arcs_str, keep_specs, arcs_dict, to_delete, commands>>
    /\ RunUnchanged

\* Mutant: dry_run is not looked at
RunDelete_IgnoresDryRun ==
    /\ mode = "run" /\ pc = "delete"
    /\ IF Len(to_delete) > 0
       THEN /\ stdout' = Append(stdout, [fmt |-> "Deleting {} archive{}...",
                                        n |-> Len(to_delete),
                                        s |-> plural_s(Len(to_delete))])
            /\ commands' = Append(commands, [op |-> "-d", files |-> to_delete])
            /\ \E rc \in ExitStatuses : env' = [env EXCEPT !.delete = rc]
       ELSE /\ stdout' = Append(stdout, [fmt |-> "Nothing to delete."])
            /\ UNCHANGED <<commands, env>>
    /\ exit_code' = 0
    /\ pc' = "exited"
    /\ UNCHANGED <<arcs_str, keep_specs, arcs_dict, to_delete>>
    /\ RunUnchanged

\* if not dry_run: ... tarsnap.delete(to_delete): subprocess.run without
\* check, so the exit status of tarsnap -d is not looked at. Then run returns
\* and the script ends with status 0.
RunDelete ==
    /\ mode = "run" /\ pc = "delete"
    /\ IF ~dry_run /\ Len(to_delete) > 0
       THEN /\ stdout' = Append(stdout, [fmt |-> "Deleting {} archive{}...",
                                        n |-> Len(to_delete),
                                        s |-> plural_s(Len(to_delete))])
            /\ commands' = Append(commands, [op |-> "-d", files |-> to_delete])
            /\ \E rc \in ExitStatuses : env' = [env EXCEPT !.delete = rc]
       ELSE /\ stdout' = IF dry_run THEN stdout
                         ELSE Append(stdout, [fmt |-> "Nothing to delete."])
            /\ UNCHANGED <<commands, env>>
    /\ exit_code' = 0
    /\ pc' = "exited"
    /\ UNCHANGED <<arcs_str, keep_specs, arcs_dict, to_delete>>
    /\ RunUnchanged

Next ==
    \/ RunParseKeepSpecs
    \/ RunListArchives
    \/ RunParseArcs
    \/ RunSelect
    \/ RunReport
    \/ RunDelete

Spec == Init /\ [][Next]_vars

-----------------------------------------------------------------------------
(* Properties of the selector *)

NameSet(as) == {as[i].name : i \in 1..Len(as)}

Names(as) == [i \in 1..Len(as) |-> as[i].name]

\* the elements of s that are in S, in the order of s
RECURSIVE Filter(_, _)
Filter(s, S) ==
    IF s = <<>> THEN <<>>
    ELSE (IF Head(s) \in S THEN <<Head(s)>> ELSE <<>>) \o Filter(Tail(s), S)

IsPermutation(f, n) == \A i, j \in 1..n : f[i] = f[j] => i = j

Orderings(n) == {f \in [1..n -> 1..n] : IsPermutation(f, n)}

Count(as, a) == Cardinality({i \in 1..Len(as) : as[i] = a})

\* bs is as in another order
SameArchives(as, bs) ==
    /\ Len(as) = Len(bs)
    /\ \A a \in Range(as) \cup Range(bs) : Count(as, a) = Count(bs, a)

Returned(m) == mode = m /\ pc = "returned"

\* C1: arc_names_to_delete yields exactly the names of the family that no
\* keep-spec keeps on the family sorted by timestamp descending; with no
\* keep-spec it yields every name, and on an empty family it yields nothing.
C1_DeleteIsComplementOfKept ==
    Returned("delete") =>
        /\ IsSortedDesc(arcs)
        /\ SameArchives(arcs0, arcs)
        /\ Range(result) =
              NameSet(arcs0) \ UNION {Range(arc_names_to_keep(arcs, kss[i])) :
                                         i \in 1..Len(kss)}
        /\ (kss = <<>> => Range(result) = NameSet(arcs0))
        /\ (arcs0 = <<>> => result = <<>>)

\* two keep-specs on an unsorted family, the second keeping an archive the
\* first does not; some archives deleted, some kept
C1_Witness ==
    /\ Returned("delete")
    /\ Len(kss) = 2
    /\ ~IsSortedDesc(arcs0)
    /\ result # <<>>
    /\ Len(result) < Len(arcs0)
    /\ arc_names_to_keep(arcs, kss[1]) # <<>>
    /\ ~(Range(arc_names_to_keep(arcs, kss[2])) \subseteq
            Range(arc_names_to_keep(arcs, kss[1])))

Bucket(a) == strftime(a.timestamp, ks.timepattern)

Buckets(as) == {strftime(as[i].timestamp, ks.timepattern) : i \in 1..Len(as)}

\* the archives the call yielded (names are distinct)
Yielded == {a \in Range(arcs) : a.name \in Range(result)}

Min(a, b) == IF a < b THEN a ELSE b

\* C2: on a list sorted by timestamp descending arc_names_to_keep yields at
\* most num names, one per bucket, each a newest archive of its bucket, and
\* the buckets yielded are the min(num, number of buckets) most recent ones.
C2_KeepsNewestOfMostRecentBuckets ==
    Returned("keep") =>
        /\ Len(result) <= ks.num
        /\ Range(result) \subseteq NameSet(arcs)
        /\ \A i, j \in 1..Len(result) : i # j => result[i] # result[j]
        /\ \A a, b \in Yielded : a # b => Bucket(a) # Bucket(b)
        /\ \A a \in Yielded : \A b \in Range(arcs) :
              Bucket(b) = Bucket(a) => ~DtLess(a.timestamp, b.timestamp)
        /\ Len(result) = Min(ks.num, Cardinality(Buckets(arcs)))
        /\ \A a \in Yielded : \A b \in Range(arcs) :
              Bucket(b) \notin {Bucket(y) : y \in Yielded}
                  => DtLess(b.timestamp, a.timestamp)

\* an archive of an already kept bucket is skipped, a later bucket is still
\* kept, and num cuts the walk short of the last bucket
C2_Witness ==
    /\ Returned("keep")
    /\ Len(result) = 2
    /\ arcs[2].name \notin Range(result)
    /\ Cardinality(Buckets(arcs)) > ks.num

Reorder(as, f) == [i \in 1..Len(as) |-> as[f[i]]]

DistinctTimestamps(as) ==
    \A i, j \in 1..Len(as) : i # j => as[i].timestamp # as[j].timestamp

\* The set of names arc_names_to_delete yields is the same for every order
\* of the family
OrderIndependent ==
    \A f \in Orderings(Len(arcs0)) :
        Range(arc_names_to_delete(Reorder(arcs0, f), kss).yielded) = Range(result)

\* C3 as stated: the deletion set is the same for every order of the input
\* list, timestamps equal or not.
C3_Original == Returned("delete") => OrderIndependent

\* C3 amended: the deletion set is the same for every order of the input list
\* when no two archives of the family have the same timestamp.
C3_OrderIndependentWithoutTies ==
    Returned("delete") /\ DistinctTimestamps(arcs0) => OrderIndependent

\* three archives at three times, not in order, one or two of them deleted
C3_Witness ==
    /\ Returned("delete")
    /\ Len(arcs0) = 3
    /\ DistinctTimestamps(arcs0)
    /\ ~IsSortedDesc(arcs0)
    /\ result # <<>>
    /\ Len(result) < 3

PosIn(as, a) == CHOOSE k \in 1..Len(as) : as[k] = a

\* bs is as sorted by timestamp descending, equal timestamps in the order of as
IsStableSortDesc(as, bs) ==
    /\ SameArchives(as, bs)
    /\ IsSortedDesc(bs)
    /\ \A i, j \in 1..Len(as) :
          i < j /\ as[i].timestamp = as[j].timestamp
              => PosIn(bs, as[i]) < PosIn(bs, as[j])

\* C7 as stated: the names are yielded in the order of the list the caller
\* passed, and that list is left in its order.
C7_Original ==
    Returned("delete") =>
        /\ result = Filter(Names(arcs0), Range(result))
        /\ arcs = arcs0

\* C7 amended: the names are yielded in descending order of timestamp (equal
\* timestamps in input order), and the caller's list is left sorted that way.
C7_YieldsInTimestampOrder ==
    Returned("delete") =>
        /\ IsStableSortDesc(arcs0, arcs)
        /\ result = Filter(Names(arcs), Range(result))

\* two names yielded in another order than the caller's
C7_Witness ==
    /\ Returned("delete")
    /\ Len(result) >= 2
    /\ arcs # arcs0
    /\ result # Filter(Names(arcs0), Range(result))

\* C10: with a non-empty family and a keep-spec of num >= 1 in the policy,
\* the archive the sort puts first is a newest one and is not yielded, so
\* not every archive of the family is yielded.
C10_NewestNeverDeleted ==
    Returned("delete") /\ arcs0 # <<>> /\ (\E i \in 1..Len(kss) : kss[i].num >= 1)
        => /\ \A j \in 1..Len(arcs0) :
                 ~DtLess(arcs[1].timestamp, arcs0[j].timestamp)
           /\ arcs[1].name \notin Range(result)
           /\ Len(result) < Len(arcs0)

\* every archive but the newest is deleted, and the newest was not passed
\* first
C10_Witness ==
    /\ Returned("delete")
    /\ Len(arcs0) = 3
    /\ \E i \in 1..Len(kss) : kss[i].num >= 1
    /\ Len(result) = 2
    /\ arcs0[1] # arcs[1]

-----------------------------------------------------------------------------
(* Properties of the parsers *)

\* <positive-integer><granularity-tag>, the integer in any digits int() reads
ValidToken(tok) ==
    \E k \in 1..(Len(tok) - 1) :
        /\ \A i \in 1..k : IsDigit(tok[i])
        /\ int(SubSeq(tok, 1, k)) > 0
        /\ \E tag \in DOMAIN TagText : SubSeq(tok, k + 1, Len(tok)) = TagText[tag]

\* C5 as stated: parse_keep_specs fails with the invalid-keep-spec error on
\* the empty string and on any token that is not a positive integer followed
\* by a granularity tag (a bare tag, a zero count), and never returns a
\* KeepSpec of num 0.
C5_RejectsInvalidPolicy ==
    Returned("parse_keep_specs") =>
        /\ (\/ text = <<>>
            \/ \E i \in 1..Len(split(text, ",")) : ~ValidToken(split(text, ",")[i]))
              => ~result.ok /\ result.error = "RuntimeError"
        /\ result.ok => \A i \in 1..Len(result.value) : result.value[i].num >= 1

\* [0-9-]
DashOrDigit(c) == c = "-" \/ IsAsciiDigit(c)

\* the name without its longest suffix that is a '-' followed by digits and
\* dashes only: the first '-' of the trailing run of digits and dashes, if
\* there is one, starts it
BaseName(name) ==
    LET r == CHOOSE j \in 1..(Len(name) + 1) :
                 /\ \A i \in j..Len(name) : DashOrDigit(name[i])
                 /\ \A k \in 1..(j - 1) : \E i \in k..Len(name) : ~DashOrDigit(name[i])
        dashes == {i \in r..Len(name) : name[i] = "-"}
    IN  IF dashes = {} THEN name
        ELSE SubSeq(name, 1, (CHOOSE q \in dashes : \A i \in dashes : q <= i) - 1)

\* name, tab, timestamp: the name holds no tab and no line boundary
WellFormedLine(line) ==
    /\ Len(line) = 2
    /\ \A i \in 1..Len(line[1]) : line[1][i] \notin LineBreaks \cup {"\t"}
    /\ \E t \in TimestampPool : FormatTimestamp(t) = line[2]

\* the archives a well-formed listing lists, in its order
Listed ==
    [i \in 1..Len(arcs0) |->
        Archive(arcs0[i][1],
                CHOOSE t \in TimestampPool : FormatTimestamp(t) = arcs0[i][2])]

RECURSIVE WithBase(_, _)
WithBase(as, base) ==
    IF as = <<>> THEN <<>>
    ELSE (IF BaseName(Head(as).name) = base THEN <<Head(as)>> ELSE <<>>)
         \o WithBase(Tail(as), base)

\* C9: parse_arcs of a well-formed listing gives one family per base name of
\* a listed archive, and the family of a base name holds exactly the listed
\* archives of that base name, in listing order; an empty listing gives an
\* empty mapping.
C9_FamiliesPartitionListing ==
    Returned("parse_arcs") /\ (\A i \in 1..Len(arcs0) : WellFormedLine(arcs0[i]))
        => /\ result.ok
           /\ \A i, j \in 1..Len(result.value) :
                 i # j => result.value[i].base # result.value[j].base
           /\ {result.value[i].base : i \in 1..Len(result.value)} =
                 {BaseName(Listed[i].name) : i \in 1..Len(Listed)}
           /\ \A i \in 1..Len(result.value) :
                 result.value[i].arcs = WithBase(Listed, result.value[i].base)
           /\ (arcs0 = <<>> => result.value = <<>>)

\* two archives of different names listed in one family, under a base name
\* that is shorter than one of the names
C9_Witness ==
    /\ Returned("parse_arcs")
    /\ result.ok
    /\ \E i \in 1..Len(result.value) :
          /\ Len(result.value[i].arcs) = 2
          /\ result.value[i].arcs[1].name # result.value[i].arcs[2].name
          /\ result.value[i].arcs[2].name # result.value[i].base

-----------------------------------------------------------------------------
(* Properties of run() *)

DeleteCommands == {i \in 1..Len(commands) : commands[i].op = "-d"}

ListCommands == {i \in 1..Len(commands) : commands[i].op = "--list-archives"}

Printed(i, fmt) == stdout[i].fmt = fmt

\* the report of to_delete stands on stdout with the given verb, and after it
\* the line at position k
ReportedBefore(verb, k) ==
    \E i, j \in 1..Len(stdout) :
        /\ i < j /\ j < k
        /\ Printed(i, "{} delete the following {} archive{}:")
        /\ stdout[i].verb = verb
        /\ stdout[i].n = Len(to_delete)
        /\ SubSeq(stdout, i + 1, i + Len(to_delete)) = print_arcs(sorted(to_delete))
        /\ Printed(j, "Leaving the following {} remaining archive{}:")

\* C4: with --dry-run the deletion set is computed and reported and tarsnap -d
\* is never run; without it tarsnap -d is run at most once, after the report,
\* on a deletion set that is not empty.
C4_DryRunNeverDeletes ==
    mode = "run" =>
        /\ dry_run => DeleteCommands = {}
        /\ dry_run /\ pc = "exited" /\ exit_code = 0
              => ReportedBefore("Would", Len(stdout) + 1)
        /\ Cardinality(DeleteCommands) <= 1
        /\ \A c \in DeleteCommands :
              /\ ~dry_run
              /\ to_delete # <<>>
              /\ commands[c].files = to_delete
              /\ \E k \in 1..Len(stdout) :
                    /\ Printed(k, "Deleting {} archive{}...")
                    /\ ReportedBefore("Will", k)

\* a dry run that ended well with archives to delete
C4_Witness ==
    /\ mode = "run" /\ pc = "exited"
    /\ dry_run
    /\ exit_code = 0
    /\ Len(to_delete) >= 2

\* C6 as stated: a run in which tarsnap --list-archives or tarsnap -d exited
\* with a non-zero status ends with exit code 1 and names the failed command.
C6_CommandFailureAborts ==
    mode = "run" /\ pc = "exited" /\ (env.list > 0 \/ env.delete > 0)
        => /\ exit_code = 1
           /\ \E i \in 1..Len(stdout) :
                 Printed(i, "Command '{}' failed with exit status {}")

\* C8: when parse_keep_specs fails on the policy string, no tarsnap command
\* is ever run, and the run ends with exit code 1.
C8_InvalidPolicyRunsNoCommand ==
    mode = "run" /\ ~parse_keep_specs(text).ok
        => /\ commands = <<>>
           /\ pc \in {"parse_keep_specs", "exited"}
           /\ pc = "exited" => exit_code = 1 /\ arcs_str = <<>> /\ to_delete = <<>>

\* a run ended by a policy string of two characters or more that does not parse
C8_Witness ==
    /\ mode = "run" /\ pc = "exited"
    /\ ~parse_keep_specs(text).ok
    /\ Len(text) >= 2
    /\ exit_code = 1
    /\ commands = <<>>

====
